---------------------------- MODULE Spec2Model ----------------------------
(***************************************************************************)
(* Model of the puffsocial API's routes.                                   *)
(*                                                                         *)
(* src/unnamed/part_000: POST /track, which migrates leaderboard rows from *)
(* the legacy device key to the current one, POST /diag and POST           *)
(* /feedback, their signature check and the leaderboard table.             *)
(*                                                                         *)
(* src/unnamed/part_001: POST /track on the devices table,                 *)
(* GET /device/:device_mac, the AuthMiddleware hook, GET /verify and the   *)
(* Discord login.                                                          *)
(*                                                                         *)
(* Every `await` of a handler is a point where another request's handler   *)
(* may run, so each handler is a sequence of steps, one per store call.    *)
(***************************************************************************)
EXTENDS Integers, Sequences, FiniteSets, TLC

(***************************************************************************)
(* Bounds of the model.                                                    *)
(***************************************************************************)
\* number of requests handled in one behaviour
MaxReq == 2

(***************************************************************************)
(* Text.  A string is a sequence of character codes.                       *)
(***************************************************************************)
\* upper-case hexadecimal digit of a nibble
HexChar(n) == IF n < 10 THEN 48 + n ELSE 55 + n

\* value of a hexadecimal digit, -1 when the character is none
HexVal(c) ==
    IF c >= 48 /\ c <= 57 THEN c - 48
    ELSE IF c >= 65 /\ c <= 70 THEN c - 55
    ELSE IF c >= 97 /\ c <= 102 THEN c - 87
    ELSE -1

\* "XX:XX:XX:XX:XX:XX" of six octets (58 is ":")
MacText(octets) ==
    [k \in 1..(3 * Len(octets) - 1) |->
        IF k % 3 = 0 THEN 58
        ELSE IF k % 3 = 1 THEN HexChar(octets[(k + 2) \div 3] \div 16)
        ELSE HexChar(octets[(k + 1) \div 3] % 16)]

\* String.prototype.substring(n)
Substring(s, n) == IF n >= Len(s) THEN <<>> ELSE SubSeq(s, n + 1, Len(s))

\* "device_"
DevicePrefix == <<100, 101, 118, 105, 99, 101, 95>>

(***************************************************************************)
(* Buffer.from(text).toString("base64"): standard base64 with padding.     *)
(***************************************************************************)
B64Char(v) ==
    IF v < 26 THEN 65 + v
    ELSE IF v < 52 THEN 71 + v
    ELSE IF v < 62 THEN v - 4
    ELSE IF v = 62 THEN 43
    ELSE 47

\* 61 is the padding character "="
RECURSIVE Base64(_)
Base64(bytes) ==
    IF Len(bytes) = 0 THEN <<>>
    ELSE IF Len(bytes) = 1 THEN
        << B64Char(bytes[1] \div 4), B64Char((bytes[1] % 4) * 16), 61, 61 >>
    ELSE IF Len(bytes) = 2 THEN
        << B64Char(bytes[1] \div 4),
           B64Char((bytes[1] % 4) * 16 + bytes[2] \div 16),
           B64Char((bytes[2] % 16) * 4), 61 >>
    ELSE
        << B64Char(bytes[1] \div 4),
           B64Char((bytes[1] % 4) * 16 + bytes[2] \div 16),
           B64Char((bytes[2] % 16) * 4 + bytes[3] \div 64),
           B64Char(bytes[3] % 64) >> \o Base64(SubSeq(bytes, 4, Len(bytes)))

\* value of a base64 character
B64Val(c) ==
    IF c >= 65 /\ c <= 90 THEN c - 65
    ELSE IF c >= 97 /\ c <= 122 THEN c - 71
    ELSE IF c >= 48 /\ c <= 57 THEN c + 4
    ELSE IF c = 43 THEN 62
    ELSE 63

\* Buffer.from(text, "base64").toString() of a padded base64 text
RECURSIVE Base64Decode(_)
Base64Decode(text) ==
    IF Len(text) < 4 THEN <<>>
    ELSE LET a == B64Val(text[1])
             b == B64Val(text[2])
             c == B64Val(text[3])
             d == B64Val(text[4])
         IN  IF text[3] = 61 THEN << a * 4 + b \div 16 >>
             ELSE IF text[4] = 61
                  THEN << a * 4 + b \div 16, (b % 16) * 16 + c \div 4 >>
                  ELSE << a * 4 + b \div 16, (b % 16) * 16 + c \div 4,
                          (c % 4) * 64 + d >>
                       \o Base64Decode(SubSeq(text, 5, Len(text)))

\* text.split("_")[1]: what stands between the first "_" (95) and the next
\* one or the end; a text without "_" is not an input of the model
AfterUnderscore(text) ==
    LET first == CHOOSE k \in 1..Len(text) :
                    text[k] = 95 /\ \A j \in 1..(k - 1) : text[j] # 95
        rest == SubSeq(text, first + 1, Len(text))
        stops == {k \in 1..Len(rest) : rest[k] = 95}
    IN  IF stops = {} THEN rest
        ELSE SubSeq(rest, 1, (CHOOSE k \in stops : \A j \in stops : k <= j) - 1)

(***************************************************************************)
(* The two device keys of POST /track.                                     *)
(***************************************************************************)
\* macAddressToUint8Array: the octets of a text "XX:XX:...:XX"
macAddressToUint8Array(text) ==
    [k \in 1..((Len(text) + 1) \div 3) |->
        16 * HexVal(text[3 * k - 2]) + HexVal(text[3 * k - 1])]

\* unpack32 with a fault: the most significant octet is read first
unpack32BigEndian(octets) == << octets[1], octets[2], octets[3], octets[4] >>

\* byte-data's unpack(buffer, {bits: 32}): the first four octets read as an
\* unsigned integer, least significant octet first (the library's default
\* byte order).  The value is kept as its four octets, most significant
\* first, since it does not fit a model integer.
unpack32(octets) == << octets[4], octets[3], octets[2], octets[1] >>

RECURSIVE Rem10(_)
Rem10(num) ==
    IF Len(num) = 0 THEN 0
    ELSE (Rem10(SubSeq(num, 1, Len(num) - 1)) * 256 + num[Len(num)]) % 10

Quot10(num) ==
    [k \in 1..Len(num) |-> (Rem10(SubSeq(num, 1, k - 1)) * 256 + num[k]) \div 10]

IsZero(num) == \A k \in 1..Len(num) : num[k] = 0

RECURSIVE Digits(_)
Digits(num) ==
    IF IsZero(num) THEN <<>> ELSE Digits(Quot10(num)) \o << 48 + Rem10(num) >>

\* Number.prototype.toString(): the decimal text of an unsigned integer
DecimalText(num) == IF IsZero(num) THEN << 48 >> ELSE Digits(num)

\* OldInt with a fault: the last four octets of the address are read
OldIntOfTail(mac) == unpack32(macAddressToUint8Array(Substring(mac, 6)))

\* DeviceUid with a fault: the last octet of the address is left out
DeviceUidShort(mac) == Base64(SubSeq(mac, 1, 14))

\* oldInt of a device.mac
OldInt(mac) == unpack32(macAddressToUint8Array(Substring(mac, 3)))

\* deviceUid of a device.mac
DeviceUid(mac) == Base64(mac)

\* oldGeneratedDeviceId: `device_${Buffer.from(oldInt.toString()).toString("base64")}`
OldGeneratedDeviceId(oldInt) == DevicePrefix \o Base64(DecimalText(oldInt))

\* generatedDeviceId: `device_${deviceUid}`
GeneratedDeviceId(deviceUid) == DevicePrefix \o deviceUid

\* the legacy key and the current key of a MAC address
LegacyKey(mac) == OldGeneratedDeviceId(OldInt(mac))
CurrentKey(mac) == GeneratedDeviceId(DeviceUid(mac))

(***************************************************************************)
(* The inputs of the model.                                                *)
(***************************************************************************)
\* AA:BB:CC:DD:EE:FF, AA:BB:CC:DD:EE:01 (same legacy key as the first) and
\* 00:11:22:33:44:55
Macs ==
    { MacText(<<170, 187, 204, 221, 238, 255>>),
      MacText(<<170, 187, 204, 221, 238, 1>>),
      MacText(<<0, 17, 34, 51, 68, 85>>) }

\* the raw octets of the MAC addresses whose keys are studied: each of the
\* first, second, fifth and sixth octet takes two values
ProbeOctets ==
    { <<a, b, 204, 221, e, f>> : a \in {170, 0}, b \in {187, 1},
                                   e \in {238, 0}, f \in {255, 1} }

\* "AA:BB:CC:DD:EE:ZZ": a text that is no MAC address
BadMacs ==
    { <<65, 65, 58, 66, 66, 58, 67, 67, 58, 68, 68, 58, 69, 69, 58, 90, 90>> }

\* device.dob, seconds since the epoch in units of 10^9 s: 1 is a date of
\* 2001, 9000 is a number that no Date can hold
Dobs == {1, 9000}

\* device.totalDabs; the legacy rows hold 1
DabsValues == {2}

Secrets == {"k1", "k2"}

Routes == {"track", "diag", "feedback"}

\* The request bodies: the JSON a device sends.  wellFormed says whether the
\* fields other than device.mac have the type the route's schema asks for.
Payloads ==
    [kind : {"track"}, mac : Macs \cup BadMacs, dob : Dobs,
     totalDabs : DabsValues, wellFormed : {TRUE}]
    \cup [kind : {"diag", "feedback"}, mac : {<<>>}, dob : {1},
          totalDabs : {1}, wellFormed : BOOLEAN]

\* the keyed digest of a payload, as a term: equal digests have equal key
\* and equal payload
Digest(key, payload) == <<"digest", key, payload>>

\* the request carries no x-signature header
NoSignature == <<"absent">>

\* DecodeBody with a fault: the decoding loses a field of the body
DecodeBodyLossy(rawBody) == [rawBody[2] EXCEPT !.totalDabs = 0]

\* the base64 text of a body and Buffer.from(rawBody, "base64")
Base64Body(payload) == <<"base64", payload>>
DecodeBody(rawBody) == rawBody[2]

\* the legacy keys that leaderboard rows may be stored under, in the order
\* of their row ids
LegacyKeySeq ==
    << LegacyKey(MacText(<<170, 187, 204, 221, 238, 255>>)),
       LegacyKey(MacText(<<0, 17, 34, 51, 68, 85>>)) >>

LegacyRowIds == 1..Len(LegacyKeySeq)

\* the devices that wrote those rows: AA:BB:CC:DD:EE:FF and 00:11:22:33:44:55
LegacyOwnerSeq ==
    << MacText(<<170, 187, 204, 221, 238, 255>>),
       MacText(<<0, 17, 34, 51, 68, 85>>) >>

(***************************************************************************)
(* State.                                                                  *)
(***************************************************************************)
VARIABLES
    leaderboard,    \* the rows of the leaderboard table
    diagnostics,    \* the rows of the diagnostics table
    feedback,       \* the rows of the feedback table
    sessions,       \* the session store (keydb): the issued tokens
    secret,         \* the shared secret the signatures are made with
    pika,           \* the ids pika.gen has handed out so far
    req,            \* the requests: each handler's position and locals
    version,        \* the version of the routes that is deployed
    phase,          \* "starting", "serving" or "failed"
    devices,        \* the devices table of the later version
    probe,          \* a pair of MAC addresses and what is derived from them
    users,          \* the users table
    connections,    \* the connections table: the external identities of users
    oauthStates,    \* the OAuth states the key store holds (oauth_state/...)
    areq            \* the requests of the session routes

vars == <<leaderboard, diagnostics, feedback, sessions, secret, pika, req,
          version, phase, devices, probe, users, connections, oauthStates, areq>>

\* what the device routes leave alone
authVars == <<users, connections, oauthStates, areq>>

\* what the handlers of the leaderboard version leave alone
otherVars == <<version, phase, devices, probe, authVars>>

\* the versions of the routes: src/unnamed/part_000 keeps the leaderboard
\* table, src/unnamed/part_001 the devices table
Versions == {"part_000", "part_001"}

Slots == 1..MaxReq

\* A request slot before its request arrives.  sig, rawBody and ip are the
\* request; body to existing are the handler's locals; status to device
\* are the reply (status 0: none sent).  The other fields record what the
\* request was and what its handler did: sigKind ("absent", "right",
\* "wrong"), input ("ok", "mac", "dob", "body": what is malformed in the
\* body), the exception thrown, the calls of verifyRequest and of a schema,
\* the store reads and writes, the row renamed and the row created, and
\* sent, the names of the fields of the device records in the reply.
Idle ==
    [route |-> "none", pc |-> "idle", sig |-> NoSignature, rawBody |-> <<>>,
     ip |-> 0, body |-> <<>>, id |-> 0, deviceUid |-> <<>>, oldInt |-> <<>>,
     oldGeneratedDeviceId |-> <<>>, generatedDeviceId |-> <<>>,
     oldDevice |-> 0, existing |-> 0,
     status |-> 0, code |-> "", device |-> 0,
     sigKind |-> "absent", input |-> "ok",
     thrown |-> "none", verifyCalls |-> 0, parses |-> 0, reads |-> 0,
     writes |-> 0, renamed |-> 0, created |-> 0, sent |-> {}]

\* the leaderboard rows written under the legacy key before this version.
\* The instant of a write is named by the request that wrote (0: before any
\* request of this run).
LegacyRow(k) ==
    [id |-> k, device_id |-> LegacyKeySeq[k], device_dob |-> 1,
     total_dabs |-> 1, last_active |-> 0, last_ip |-> 0, created_at |-> 0]

\* no pair of MAC addresses under study
NoProbe == [pc |-> "none"]

\* What earlier runs left in the users and connections tables and in the
\* session store: an administrator and a plain user, each with a Discord
\* identity and a session, and the session of a user who is gone.
StoredUsers == { [id |-> 1, admin |-> TRUE], [id |-> 2, admin |-> FALSE] }

StoredConnections ==
    { [id |-> 3, platform |-> "discord", platform_id |-> "id_1", user_id |-> 1],
      [id |-> 4, platform |-> "discord", platform_id |-> "id_2", user_id |-> 2] }

StoredSessions ==
    { [token |-> 5, user_id |-> 1, connection_id |-> 3],
      [token |-> 6, user_id |-> 2, connection_id |-> 4],
      [token |-> 7, user_id |-> 9, connection_id |-> 9] }

\* A slot of the session routes before its request arrives.  auth is the
\* Authorization header (0: none), state and identity the query of an OAuth
\* callback (identity: whom the code stands for at Discord, "" for a code
\* Discord refuses); session, user and conn are the hook's and the
\* handler's locals (0: undefined or null); status and code are the reply;
\* ran tells that the route handler ran, issued is the session token handed
\* out, createdUser and createdConn are the rows a login inserted.
AIdle ==
    [route |-> "", pc |-> "idle", auth |-> 0, state |-> 0, identity |-> "",
     session |-> [user_id |-> 0, connection_id |-> 0], user |-> 0, conn |-> 0,
     status |-> 0, code |-> "", ran |-> FALSE, issued |-> 0,
     createdUser |-> 0, createdConn |-> 0]

\* The process before it starts: the secret is what the environment holds
\* ("": none), the tables are what earlier runs left.
Init ==
    /\ version \in Versions
    /\ phase = "starting"
    /\ \E ids \in SUBSET LegacyRowIds :
          leaderboard = IF version = "part_000" THEN {LegacyRow(k) : k \in ids}
                        ELSE {}
    /\ devices = {}
    /\ diagnostics = {}
    /\ feedback = {}
    /\ sessions = StoredSessions
    /\ secret \in {"", "k1"}
    /\ pika = Len(LegacyKeySeq)
    /\ req = [i \in Slots |-> Idle]
    /\ probe = NoProbe
    /\ users = StoredUsers
    /\ connections = StoredConnections
    /\ oauthStates = {}
    /\ areq = [i \in Slots |-> AIdle]

(***************************************************************************)
(* utils: the signature check and the schemas.  Their source is not among  *)
(* the files of src/; they are modelled from the specification.            *)
(***************************************************************************)
\* verify(payload, signature): the payload on a match, Rejected (an
\* exception at the call) on a mismatch; no I/O, no side effect
verifyRequest(payload, signature) ==
    IF signature = Digest(secret, payload)
    THEN [rejected |-> FALSE, body |-> payload]
    ELSE [rejected |-> TRUE, body |-> <<>>]

\* a well-formed MAC address: six pairs of hexadecimal digits, colons between
IsMacAddress(text) ==
    /\ Len(text) = 17
    /\ \A k \in 1..17 : IF k % 3 = 0 THEN text[k] = 58 ELSE HexVal(text[k]) >= 0

\* trackingValidation.parseAsync(body) does not throw a ZodError
trackingValidation(body) ==
    body.kind = "track" /\ body.wellFormed /\ IsMacAddress(body.mac)

\* diagValidation, feedbackValidation
diagValidation(body) == body.kind = "diag" /\ body.wellFormed
feedbackValidation(body) == body.kind = "feedback" /\ body.wellFormed

(***************************************************************************)
(* Helpers of the handlers.                                                *)
(***************************************************************************)
\* MissingSignature with a fault: the header check is left out
MissingSignatureNever(r) == FALSE

\* !req.headers["x-signature"]
MissingSignature(r) == r.sig = NoSignature

\* isNaN(new Date(dob * 1000).getTime()): a Date holds at most 8.64e15 ms
InvalidDate(dob) == dob > 8640 \/ dob < -8640

\* prisma.leaderboard.findFirst({ where: { device_id } }): the row's id, 0
\* for null
FindFirst(rows, key) ==
    IF \E row \in rows : row.device_id = key
    THEN (CHOOSE row \in rows : row.device_id = key).id
    ELSE 0

\* the handler returns: the request and its body are released
Return(r) ==
    [r EXCEPT !.pc = "done", !.sig = NoSignature, !.rawBody = <<>>, !.body = <<>>]

\* sanitize(record, names) of utils: the record without the named fields
Sanitize(record, names) == [f \in (DOMAIN record) \ names |-> record[f]]

\* return res.status(s).send({ code })
Reply(r, s, c) == [Return(r) EXCEPT !.status = s, !.code = c]

\* an exception that leaves the handler: the server's default error reply
Uncaught(r, what) ==
    [Return(r) EXCEPT !.thrown = what, !.status = 500,
                      !.code = "Internal Server Error"]

\* POST /track's catch block: console.error(error), and no reply is sent
TrackCatch(r, what) == [Return(r) EXCEPT !.thrown = what]

(***************************************************************************)
(* A request arrives.  Requests take the slots in order; the client of the *)
(* request in slot i has the address i.  A handler runs from the arrival   *)
(* of its request to its first store call without another handler running  *)
(* in between: verifyRequest and the schemas do no I/O, so their awaits    *)
(* resume before the server takes the next event.                          *)
(***************************************************************************)
\* what a request may carry as its x-signature header: nothing, the digest
\* of its body, a digest made with another key, the digest of another body
Signatures(payload) ==
    { NoSignature, Digest(secret, payload),
      Digest(secret, [payload EXCEPT !.dob = @ + 1]) }
    \cup { Digest(k, payload) : k \in Secrets \ {secret} }

\* what is malformed in a body
InputKind(payload) ==
    IF ~payload.wellFormed THEN "body"
    ELSE IF payload.kind = "track" /\ ~IsMacAddress(payload.mac) THEN "mac"
    ELSE IF payload.kind = "track" /\ InvalidDate(payload.dob) THEN "dob"
    ELSE "ok"

\* the request in slot i: a body, sent as base64, and its signature
Request(i, payload, signature) ==
    [Idle EXCEPT !.route = payload.kind, !.pc = "received",
                 !.sig = signature, !.ip = i, !.rawBody = Base64Body(payload),
                 !.sigKind = IF signature = NoSignature THEN "absent"
                             ELSE IF signature = Digest(secret, payload) THEN "right"
                             ELSE "wrong",
                 !.input = InputKind(payload)]

\* the process serves requests and slot i is the next free one
NextSlot(i) ==
    /\ phase = "serving"
    /\ req[i].pc = "idle"
    /\ \A j \in Slots : j < i => req[j].pc # "idle"

(***************************************************************************)
(* POST /track                                                             *)
(***************************************************************************)
\* TrackEntry with a fault: the verdict of verifyRequest is not acted upon
TrackEntryIgnoresVerdict(r) ==
    IF MissingSignature(r) THEN Reply(r, 400, "invalid_tracking_data")
    ELSE [r EXCEPT !.verifyCalls = @ + 1, !.body = DecodeBody(r.rawBody),
                   !.pc = "validate"]

\* the header check and the signature check, before the try block
TrackEntry(r) ==
    IF MissingSignature(r) THEN Reply(r, 400, "invalid_tracking_data")
    ELSE LET v == verifyRequest(DecodeBody(r.rawBody), r.sig)
             called == [r EXCEPT !.verifyCalls = @ + 1]
         IN  IF v.rejected THEN Uncaught(called, "Rejected")
             ELSE [called EXCEPT !.body = v.body, !.pc = "validate"]

\* the start of the try block: the body is parsed, the id drawn, oldInt and
\* deviceUid computed, the date checked and the two keys built
TrackParse(r, newId) ==
    LET parsed == [r EXCEPT !.parses = @ + 1]
    IN  IF ~trackingValidation(r.body) THEN TrackCatch(parsed, "ZodError")
        ELSE LET derived == [parsed EXCEPT !.id = newId,
                                           !.oldInt = OldInt(r.body.mac),
                                           !.deviceUid = DeviceUid(r.body.mac)]
             IN  IF InvalidDate(r.body.dob)
                 THEN Reply(derived, 400, "invalid_tracking_data")
                 ELSE [derived EXCEPT
                         !.oldGeneratedDeviceId = OldGeneratedDeviceId(derived.oldInt),
                         !.generatedDeviceId = GeneratedDeviceId(derived.deviceUid),
                         !.pc = "findOld"]

\* a POST /track request arrives and its handler runs to its first store call
TrackStart(i) ==
    /\ version = "part_000"
    /\ NextSlot(i)
    /\ \E payload \in {p \in Payloads : p.kind = "track"} :
         \E signature \in Signatures(payload) :
            LET entered == TrackEntry(Request(i, payload, signature))
                started == IF entered.pc = "validate"
                           THEN TrackParse(entered, pika + 1) ELSE entered
            IN  /\ req' = [req EXCEPT ![i] = started]
                /\ pika' = IF started.id # 0 THEN pika + 1 ELSE pika
    /\ UNCHANGED <<leaderboard, diagnostics, feedback, sessions, secret, otherVars>>

\* AfterFindOld with a fault: the rename is left out
AfterFindOldSkipsRename(oldDevice) == "findExisting"

\* where the handler goes after the lookup under the legacy key
AfterFindOld(oldDevice) == IF oldDevice # 0 THEN "rename" ELSE "findExisting"

\* oldDevice = findFirst({ where: { device_id: oldGeneratedDeviceId } })
TrackFindOld(i) ==
    LET r == req[i]
        found == FindFirst(leaderboard, r.oldGeneratedDeviceId)
    IN  /\ r.route = "track" /\ r.pc = "findOld"
        /\ req' = [req EXCEPT ![i] = [r EXCEPT !.oldDevice = found, !.reads = @ + 1,
                                               !.pc = AfterFindOld(found)]]
        /\ UNCHANGED <<leaderboard, diagnostics, feedback, sessions, secret, otherVars, pika>>

\* TrackRename with a fault: the update writes the legacy key back
TrackRenameKeepsKey(i) ==
    LET r == req[i]
    IN  /\ r.route = "track" /\ r.pc = "rename"
        /\ leaderboard' =
             { IF row.id = r.oldDevice
               THEN [row EXCEPT !.device_id = r.oldGeneratedDeviceId]
               ELSE row : row \in leaderboard }
        /\ req' = [req EXCEPT ![i] = [r EXCEPT !.writes = @ + 1,
                                               !.renamed = r.oldDevice,
                                               !.pc = "findExisting"]]
        /\ UNCHANGED <<diagnostics, feedback, sessions, secret, otherVars, pika>>

\* update({ data: { device_id: generatedDeviceId }, where: { id: oldDevice.id } });
\* device_id is a unique column, so the update throws when another row holds
\* the current key already
TrackRename(i) ==
    LET r == req[i]
        taken == \E row \in leaderboard :
                    row.device_id = r.generatedDeviceId /\ row.id # r.oldDevice
    IN  /\ r.route = "track" /\ r.pc = "rename"
        /\ IF taken
           THEN /\ req' = [req EXCEPT ![i] = TrackCatch(r, "UniqueConstraint")]
                /\ leaderboard' = leaderboard
           ELSE /\ leaderboard' =
                     { IF row.id = r.oldDevice
                       THEN [row EXCEPT !.device_id = r.generatedDeviceId]
                       ELSE row : row \in leaderboard }
                /\ req' = [req EXCEPT ![i] = [r EXCEPT !.writes = @ + 1,
                                                       !.renamed = r.oldDevice,
                                                       !.pc = "findExisting"]]
        /\ UNCHANGED <<diagnostics, feedback, sessions, secret, otherVars, pika>>

\* existing = findFirst({ where: { device_id: generatedDeviceId } })
TrackFindExisting(i) ==
    LET r == req[i]
        found == FindFirst(leaderboard, r.generatedDeviceId)
    IN  /\ r.route = "track" /\ r.pc = "findExisting"
        /\ req' = [req EXCEPT ![i] = [r EXCEPT !.existing = found, !.reads = @ + 1,
                                               !.pc = IF found # 0 THEN "update"
                                                                  ELSE "create"]]
        /\ UNCHANGED <<leaderboard, diagnostics, feedback, sessions, secret, otherVars, pika>>

\* TrackUpdate with a fault: the stored total and address are left as they are
TrackUpdateStale(i) ==
    LET r == req[i]
    IN  /\ r.route = "track" /\ r.pc = "update"
        /\ IF FindFirst(leaderboard, r.generatedDeviceId) = 0
           THEN /\ req' = [req EXCEPT ![i] = TrackCatch(r, "RecordNotFound")]
                /\ leaderboard' = leaderboard
           ELSE /\ leaderboard' =
                     { IF row.device_id = r.generatedDeviceId
                       THEN [row EXCEPT !.device_dob = r.body.dob,
                                        !.last_active = i]
                       ELSE row : row \in leaderboard }
                /\ req' = [req EXCEPT ![i] = [r EXCEPT !.writes = @ + 1,
                                                       !.pc = "respond"]]
        /\ UNCHANGED <<diagnostics, feedback, sessions, secret, otherVars, pika>>

\* update({ data: {...}, where: { device_id: generatedDeviceId } }): throws
\* when no row holds the key any more; last_active is the instant of the call
TrackUpdate(i) ==
    LET r == req[i]
    IN  /\ r.route = "track" /\ r.pc = "update"
        /\ IF FindFirst(leaderboard, r.generatedDeviceId) = 0
           THEN /\ req' = [req EXCEPT ![i] = TrackCatch(r, "RecordNotFound")]
                /\ leaderboard' = leaderboard
           ELSE /\ leaderboard' =
                     { IF row.device_id = r.generatedDeviceId
                       THEN [row EXCEPT !.device_dob = r.body.dob,
                                        !.total_dabs = r.body.totalDabs,
                                        !.last_active = i,
                                        !.last_ip = r.ip]
                       ELSE row : row \in leaderboard }
                /\ req' = [req EXCEPT ![i] = [r EXCEPT !.writes = @ + 1,
                                                       !.pc = "respond"]]
        /\ UNCHANGED <<diagnostics, feedback, sessions, secret, otherVars, pika>>

\* TrackCreate with a fault: the table accepts a second row of a key
TrackCreateUnchecked(i) ==
    LET r == req[i]
    IN  /\ r.route = "track" /\ r.pc = "create"
        /\ leaderboard' = leaderboard \cup
               { [id |-> r.id, device_id |-> r.generatedDeviceId,
                  device_dob |-> r.body.dob,
                  total_dabs |-> r.body.totalDabs, last_active |-> 0,
                  last_ip |-> r.ip, created_at |-> i] }
        /\ req' = [req EXCEPT ![i] = [r EXCEPT !.writes = @ + 1,
                                               !.created = r.id,
                                               !.pc = "respond"]]
        /\ UNCHANGED <<diagnostics, feedback, sessions, secret, otherVars, pika>>

\* create({ data: { id, device_id: generatedDeviceId, ... } }): throws when a
\* row holds the key by now; last_active is not passed, created_at is the
\* instant of the insert
TrackCreate(i) ==
    LET r == req[i]
    IN  /\ r.route = "track" /\ r.pc = "create"
        /\ IF FindFirst(leaderboard, r.generatedDeviceId) # 0
           THEN /\ req' = [req EXCEPT ![i] = TrackCatch(r, "UniqueConstraint")]
                /\ leaderboard' = leaderboard
           ELSE /\ leaderboard' = leaderboard \cup
                     { [id |-> r.id, device_id |-> r.generatedDeviceId,
                        device_dob |-> r.body.dob,
                        total_dabs |-> r.body.totalDabs, last_active |-> 0,
                        last_ip |-> r.ip, created_at |-> i] }
                /\ req' = [req EXCEPT ![i] = [r EXCEPT !.writes = @ + 1,
                                                       !.created = r.id,
                                                       !.pc = "respond"]]
        /\ UNCHANGED <<diagnostics, feedback, sessions, secret, otherVars, pika>>

\* the row stored under a key, in a state where the key holds one
RowOf(rows, key) == CHOOSE row \in rows : row.device_id = key

\* findMany({ orderBy: { total_dabs: "desc" } }) and the reply: the row that
\* holds the current key now, if any (its place in the list is left out)
TrackRespond(i) ==
    LET r == req[i]
        found == FindFirst(leaderboard, r.generatedDeviceId)
    IN  /\ r.route = "track" /\ r.pc = "respond"
        /\ req' = [req EXCEPT ![i] =
                     [Reply(r, 200, "success") EXCEPT
                         !.reads = @ + 1,
                         !.device = found,
                         !.sent = IF found = 0 THEN {}
                                  ELSE DOMAIN RowOf(leaderboard, r.generatedDeviceId)]]
        /\ UNCHANGED <<leaderboard, diagnostics, feedback, sessions, secret, otherVars, pika>>

\* GET /leaderboard: findMany({ orderBy, take: 10 }), sanitize(lb, ["last_ip"])
\* of every row, and the reply
GetLeaderboard(i) ==
    /\ version = "part_000"
    /\ NextSlot(i)
    /\ req' = [req EXCEPT ![i] =
                 [Reply([Idle EXCEPT !.route = "leaderboard", !.ip = i], 200, "success")
                     EXCEPT !.reads = 1,
                            !.sent = UNION {DOMAIN Sanitize(row, {"last_ip"}) :
                                                row \in leaderboard}]]
    /\ UNCHANGED <<leaderboard, diagnostics, feedback, sessions, secret, otherVars, pika>>

\* the device_id parameters of GET /device/:device_id: the keys of the stored
\* rows and the current key of AA:BB:CC:DD:EE:FF, stored or not
DeviceIdParams ==
    {row.device_id : row \in leaderboard}
        \cup {CurrentKey(MacText(<<170, 187, 204, 221, 238, 255>>))}

\* GET /device/:device_id arrives: device = findFirst({ where: { device_id } }),
\* 404 when there is none
GetDeviceByIdStart(i) ==
    /\ version = "part_000"
    /\ NextSlot(i)
    /\ \E param \in DeviceIdParams :
          LET r == [Idle EXCEPT !.route = "device", !.ip = i, !.reads = 1,
                                !.device = FindFirst(leaderboard, param)]
          IN  req' = [req EXCEPT ![i] =
                        IF r.device = 0 THEN Reply(r, 404, "device_not_found")
                        ELSE [r EXCEPT !.pc = "devicePosition"]]
    /\ UNCHANGED <<leaderboard, diagnostics, feedback, sessions, secret, otherVars, pika>>

\* position = leaderboard_positions.findFirst(...) and the reply with
\* sanitize(device, ["last_ip"]) (the position is left out)
GetDeviceByIdRespond(i) ==
    LET r == req[i]
        device == CHOOSE row \in leaderboard : row.id = r.device
    IN  /\ r.route = "device" /\ r.pc = "devicePosition"
        /\ req' = [req EXCEPT ![i] =
                     [Reply(r, 200, "success") EXCEPT
                         !.reads = @ + 1,
                         !.sent = DOMAIN Sanitize(device, {"last_ip"})]]
        /\ UNCHANGED <<leaderboard, diagnostics, feedback, sessions, secret, otherVars, pika>>

(***************************************************************************)
(* POST /track of the later version (src/unnamed/part_001): one devices    *)
(* row per MAC address, no device key.                                     *)
(***************************************************************************)
\* findFirst({ where: { mac } }) on devices: the id of the row, 0 when none
FindMac(rows, mac) ==
    IF \E row \in rows : row.mac = mac
    THEN (CHOOSE row \in rows : row.mac = mac).id
    ELSE 0

\* trackingValidation.parseAsync(body) and the date check, inside the try block
DeviceParse(r) ==
    LET parsed == [r EXCEPT !.parses = @ + 1]
    IN  IF ~trackingValidation(r.body) THEN TrackCatch(parsed, "ZodError")
        ELSE IF InvalidDate(r.body.dob)
             THEN Reply(parsed, 400, "invalid_tracking_data")
             ELSE [parsed EXCEPT !.pc = "findDevice"]

\* a POST /track request arrives and its handler runs to its first store call
DeviceStart(i) ==
    /\ version = "part_001"
    /\ NextSlot(i)
    /\ \E payload \in {p \in Payloads : p.kind = "track"} :
         \E signature \in Signatures(payload) :
            LET entered == TrackEntry(Request(i, payload, signature))
            IN  req' = [req EXCEPT ![i] = IF entered.pc = "validate"
                                          THEN DeviceParse(entered) ELSE entered]
    /\ UNCHANGED <<leaderboard, diagnostics, feedback, sessions, secret, pika,
                   version, phase, devices, probe,
                   authVars>>

\* existing = prisma.devices.findFirst({ where: { mac } })
DeviceFindExisting(i) ==
    LET r == req[i]
        found == FindMac(devices, r.body.mac)
    IN  /\ r.route = "track" /\ r.pc = "findDevice"
        /\ req' = [req EXCEPT ![i] = [r EXCEPT !.existing = found, !.reads = @ + 1,
                                               !.pc = IF found # 0 THEN "updateDevice"
                                                                  ELSE "createDevice"]]
        /\ UNCHANGED <<leaderboard, diagnostics, feedback, sessions, secret, pika,
                       version, phase, devices, probe,
                   authVars>>

\* prisma.devices.update({ data: {...}, where: { mac } }): throws when no row
\* holds the MAC address
DeviceUpdate(i) ==
    LET r == req[i]
    IN  /\ r.route = "track" /\ r.pc = "updateDevice"
        /\ IF FindMac(devices, r.body.mac) = 0
           THEN /\ req' = [req EXCEPT ![i] = TrackCatch(r, "RecordNotFound")]
                /\ devices' = devices
           ELSE /\ devices' =
                     { IF row.mac = r.body.mac
                       THEN [row EXCEPT !.dob = r.body.dob,
                                        !.dabs = r.body.totalDabs,
                                        !.last_active = i,
                                        !.last_ip = r.ip]
                       ELSE row : row \in devices }
                /\ req' = [req EXCEPT ![i] = [r EXCEPT !.writes = @ + 1,
                                                       !.pc = "device"]]
        /\ UNCHANGED <<leaderboard, diagnostics, feedback, sessions, secret, pika,
                       version, phase, probe,
                   authVars>>

\* id = pika.gen("device") and prisma.devices.create({ data: { id, mac, ... } }):
\* throws when a row holds the MAC address by now
DeviceCreate(i) ==
    LET r == req[i]
        drawn == [r EXCEPT !.id = pika + 1]
    IN  /\ r.route = "track" /\ r.pc = "createDevice"
        /\ pika' = pika + 1
        /\ IF FindMac(devices, r.body.mac) # 0
           THEN /\ req' = [req EXCEPT ![i] = TrackCatch(drawn, "UniqueConstraint")]
                /\ devices' = devices
           ELSE /\ devices' = devices \cup
                     { [id |-> pika + 1, mac |-> r.body.mac, dob |-> r.body.dob,
                        dabs |-> r.body.totalDabs, last_active |-> i,
                        last_ip |-> r.ip, created_at |-> i] }
                /\ req' = [req EXCEPT ![i] = [drawn EXCEPT !.writes = @ + 1,
                                                           !.created = pika + 1,
                                                           !.pc = "device"]]
        /\ UNCHANGED <<leaderboard, diagnostics, feedback, sessions, secret,
                       version, phase, probe,
                   authVars>>

\* device = prisma.devices.findFirst({ where: { mac } })
DeviceFind(i) ==
    LET r == req[i]
    IN  /\ r.route = "track" /\ r.pc = "device"
        /\ req' = [req EXCEPT ![i] = [r EXCEPT !.device = FindMac(devices, r.body.mac),
                                               !.reads = @ + 1,
                                               !.pc = "position"]]
        /\ UNCHANGED <<leaderboard, diagnostics, feedback, sessions, secret, pika,
                       version, phase, devices, probe,
                   authVars>>

\* pos = prisma.device_leaderboard.findFirst({ where: { id } }) and the reply
\* (the position is left out)
DeviceRespond(i) ==
    LET r == req[i]
    IN  /\ r.route = "track" /\ r.pc = "position"
        /\ req' = [req EXCEPT ![i] =
                     [Reply(r, 200, "success") EXCEPT
                         !.reads = @ + 1,
                         !.sent = IF r.device = 0 THEN {}
                                  ELSE DOMAIN Sanitize(
                                           CHOOSE row \in devices : row.id = r.device,
                                           {"mac", "model", "hardware",
                                            "serial_number", "dob", "last_ip",
                                            "user_id"})]]
        /\ UNCHANGED <<leaderboard, diagnostics, feedback, sessions, secret, pika,
                       version, phase, devices, probe,
                   authVars>>

(***************************************************************************)
(* POST /diag                                                              *)
(***************************************************************************)
\* the header check and the signature check; the handler catches nothing here
DiagEntry(r) ==
    IF MissingSignature(r) THEN Reply(r, 400, "invalid_diag_data")
    ELSE LET v == verifyRequest(DecodeBody(r.rawBody), r.sig)
             called == [r EXCEPT !.verifyCalls = @ + 1]
         IN  IF v.rejected THEN Uncaught(called, "Rejected")
             ELSE [called EXCEPT !.body = v.body, !.pc = "validate"]

\* diagValidation.parseAsync(body), outside the try block, and pika.gen
DiagParse(r, newId) ==
    LET parsed == [r EXCEPT !.parses = @ + 1]
    IN  IF ~diagValidation(r.body) THEN Uncaught(parsed, "ZodError")
        ELSE [parsed EXCEPT !.id = newId, !.pc = "create"]

\* a POST /diag request arrives and its handler runs to its store call
DiagStart(i) ==
    /\ version = "part_000"
    /\ NextSlot(i)
    /\ \E payload \in {p \in Payloads : p.kind = "diag"} :
         \E signature \in Signatures(payload) :
            LET entered == DiagEntry(Request(i, payload, signature))
                started == IF entered.pc = "validate"
                           THEN DiagParse(entered, pika + 1) ELSE entered
            IN  /\ req' = [req EXCEPT ![i] = started]
                /\ pika' = IF started.id # 0 THEN pika + 1 ELSE pika
    /\ UNCHANGED <<leaderboard, diagnostics, feedback, sessions, secret, otherVars>>

\* prisma.diagnostics.create and the 204
DiagCreate(i) ==
    LET r == req[i]
    IN  /\ r.route = "diag" /\ r.pc = "create"
        /\ diagnostics' = diagnostics \cup { [id |-> r.id, ip |-> r.ip] }
        /\ req' = [req EXCEPT ![i] = [Reply(r, 204, "") EXCEPT !.writes = @ + 1]]
        /\ UNCHANGED <<leaderboard, feedback, sessions, secret, otherVars, pika>>

(***************************************************************************)
(* POST /feedback: the whole handler is one try block.                     *)
(***************************************************************************)
\* the catch block: a ZodError is a 400, anything else a 500
FeedbackCatch(r, what) ==
    IF what = "ZodError"
    THEN [Reply(r, 400, "validation_error") EXCEPT !.thrown = what]
    ELSE [Reply(r, 500, "internal_error") EXCEPT !.thrown = what]

\* the header check and the signature check
FeedbackEntry(r) ==
    IF MissingSignature(r) THEN Reply(r, 400, "invalid_feedback_request")
    ELSE LET v == verifyRequest(DecodeBody(r.rawBody), r.sig)
             called == [r EXCEPT !.verifyCalls = @ + 1]
         IN  IF v.rejected THEN FeedbackCatch(called, "Rejected")
             ELSE [called EXCEPT !.body = v.body, !.pc = "validate"]

\* feedbackValidation.parseAsync(body) and pika.gen
FeedbackParse(r, newId) ==
    LET parsed == [r EXCEPT !.parses = @ + 1]
    IN  IF ~feedbackValidation(r.body) THEN FeedbackCatch(parsed, "ZodError")
        ELSE [parsed EXCEPT !.id = newId, !.pc = "create"]

\* FeedbackStart with a fault: the feedback is stored before it is verified
FeedbackStartStoresFirst(i) ==
    /\ version = "part_000"
    /\ NextSlot(i)
    /\ \E payload \in {p \in Payloads : p.kind = "feedback"} :
         \E signature \in Signatures(payload) :
            /\ req' = [req EXCEPT ![i] =
                         FeedbackEntry(Request(i, payload, signature))]
            /\ feedback' = feedback \cup { [id |-> pika + 1, ip |-> i] }
            /\ pika' = pika + 1
    /\ UNCHANGED <<leaderboard, diagnostics, sessions, secret, otherVars>>

\* a POST /feedback request arrives and its handler runs to its store call
FeedbackStart(i) ==
    /\ version = "part_000"
    /\ NextSlot(i)
    /\ \E payload \in {p \in Payloads : p.kind = "feedback"} :
         \E signature \in Signatures(payload) :
            LET entered == FeedbackEntry(Request(i, payload, signature))
                started == IF entered.pc = "validate"
                           THEN FeedbackParse(entered, pika + 1) ELSE entered
            IN  /\ req' = [req EXCEPT ![i] = started]
                /\ pika' = IF started.id # 0 THEN pika + 1 ELSE pika
    /\ UNCHANGED <<leaderboard, diagnostics, feedback, sessions, secret, otherVars>>

\* prisma.feedback.create and the 204
FeedbackCreate(i) ==
    LET r == req[i]
    IN  /\ r.route = "feedback" /\ r.pc = "create"
        /\ feedback' = feedback \cup { [id |-> r.id, ip |-> r.ip] }
        /\ req' = [req EXCEPT ![i] = [Reply(r, 204, "") EXCEPT !.writes = @ + 1]]
        /\ UNCHANGED <<leaderboard, diagnostics, sessions, secret, otherVars, pika>>

(***************************************************************************)
(* The server: handlers interleave at their store calls.                   *)
(***************************************************************************)
\* Boot with a fault: the process serves whatever the secret is
BootAnyway ==
    /\ phase = "starting"
    /\ phase' = "serving"
    /\ UNCHANGED <<leaderboard, diagnostics, feedback, sessions, secret, pika, req,
                   version, devices, probe,
                   authVars>>

\* Startup: the secret is loaded once; with none the process fails and
\* serves nothing.
Boot ==
    /\ phase = "starting"
    /\ phase' = IF secret = "" THEN "failed" ELSE "serving"
    /\ UNCHANGED <<leaderboard, diagnostics, feedback, sessions, secret, pika, req,
                   version, devices, probe,
                   authVars>>

Start(i) ==
    \/ TrackStart(i)
    \/ DeviceStart(i)
    \/ DiagStart(i)
    \/ FeedbackStart(i)

Step(i) ==
    \/ TrackFindOld(i)
    \/ TrackRename(i)
    \/ TrackFindExisting(i)
    \/ TrackUpdate(i)
    \/ TrackCreate(i)
    \/ TrackRespond(i)
    \/ DeviceFindExisting(i)
    \/ DeviceUpdate(i)
    \/ DeviceCreate(i)
    \/ DeviceFind(i)
    \/ DeviceRespond(i)
    \/ DiagCreate(i)
    \/ FeedbackCreate(i)

Next == Boot \/ \E i \in Slots : Start(i) \/ Step(i)

Spec == Init /\ [][Next]_vars

\* The same server with the requests sent one after the other: a request
\* arrives when every earlier one has been answered or dropped.
InTurn == \A j \in Slots : req[j].pc \in {"idle", "done"}

NextSeq == Boot \/ \E i \in Slots : (InTurn /\ Start(i)) \/ Step(i)

SpecSeq == Init /\ [][NextSeq]_vars

\* The server with the public reads of the leaderboard version, GET
\* /leaderboard and GET /device/:device_id, next to the other routes.
NextPublic ==
    \/ Next
    \/ \E i \in Slots : \/ GetLeaderboard(i)
                        \/ GetDeviceByIdStart(i)
                        \/ GetDeviceByIdRespond(i)

SpecPublic == Init /\ [][NextPublic]_vars

(***************************************************************************)
(* The device keys as functions of the MAC address: the keys of two        *)
(* addresses are derived as POST /track derives them, and a device is      *)
(* looked up by its key as GET /device/:device_mac does.                   *)
(***************************************************************************)
\* a devices row of a MAC address, written by an earlier request
DeviceRow(id, mac) ==
    [id |-> id, mac |-> mac, dob |-> 1, dabs |-> 1, last_active |-> 0,
     last_ip |-> 0, created_at |-> 0]

\* both devices are stored; no request is in progress
InitKeys ==
    /\ version = "part_001"
    /\ phase = "serving"
    /\ leaderboard = {}
    /\ diagnostics = {}
    /\ feedback = {}
    /\ sessions = StoredSessions
    /\ secret = "k1"
    /\ pika = 2
    /\ req = [i \in Slots |-> Idle]
    /\ users = StoredUsers
    /\ connections = StoredConnections
    /\ oauthStates = {}
    /\ areq = [i \in Slots |-> AIdle]
    /\ \E o1, o2 \in ProbeOctets :
          /\ probe = [pc |-> "input", octets1 |-> o1, octets2 |-> o2,
                      mac1 |-> MacText(o1), mac2 |-> MacText(o2),
                      legacy1 |-> <<>>, legacy2 |-> <<>>,
                      current1 |-> <<>>, current2 |-> <<>>,
                      param |-> <<>>, where |-> <<>>, device |-> 0, status |-> 0]
          /\ devices = {DeviceRow(1, MacText(o1)), DeviceRow(2, MacText(o2))}

\* oldInt, deviceUid, oldGeneratedDeviceId and generatedDeviceId of the two
\* addresses
DeriveKeys ==
    /\ probe.pc = "input"
    /\ probe' = [probe EXCEPT
                    !.pc = "derived",
                    !.legacy1 = OldGeneratedDeviceId(OldInt(probe.mac1)),
                    !.legacy2 = OldGeneratedDeviceId(OldInt(probe.mac2)),
                    !.current1 = GeneratedDeviceId(DeviceUid(probe.mac1)),
                    !.current2 = GeneratedDeviceId(DeviceUid(probe.mac2))]
    /\ UNCHANGED <<leaderboard, diagnostics, feedback, sessions, secret, pika, req,
                   version, phase, devices,
                   authVars>>

\* GET /device/:device_mac with a key of the first address: findFirst on the
\* MAC address decoded from the parameter, 404 when no row holds it
GetDevice ==
    /\ probe.pc = "derived"
    /\ \E param \in {probe.current1, probe.legacy1} :
          LET mac == Base64Decode(AfterUnderscore(param))
              found == FindMac(devices, mac)
          IN  probe' = [probe EXCEPT !.pc = "looked", !.param = param,
                                     !.where = mac, !.device = found,
                                     !.status = IF found = 0 THEN 404 ELSE 200]
    /\ UNCHANGED <<leaderboard, diagnostics, feedback, sessions, secret, pika, req,
                   version, phase, devices,
                   authVars>>

NextKeys == DeriveKeys \/ GetDevice

SpecKeys == InitKeys /\ [][NextKeys]_vars

(***************************************************************************)
(* The session routes of src/unnamed/part_001: the AuthMiddleware hook in  *)
(* front of GET /user (required) and GET /devices (required, admin),       *)
(* GET /verify, and the Discord login GET and POST /oauth/discord.         *)
(***************************************************************************)
\* an OAuth state GET /oauth/discord handed out less than 500 seconds ago
StoredStates == {8}

\* the process starts with what it stored before
InitAuth ==
    /\ version = "part_001"
    /\ phase = "starting"
    /\ leaderboard = {}
    /\ devices = {}
    /\ diagnostics = {}
    /\ feedback = {}
    /\ sessions = StoredSessions
    /\ secret = "k1"
    /\ pika = 9
    /\ req = [i \in Slots |-> Idle]
    /\ probe = NoProbe
    /\ users = StoredUsers
    /\ connections = StoredConnections
    /\ oauthStates = StoredStates
    /\ areq = [i \in Slots |-> AIdle]

\* the process serves requests and slot i of the session routes is the next
\* free one
ANextSlot(i) ==
    /\ phase = "serving"
    /\ areq[i].pc = "idle"
    /\ \A j \in Slots : j < i => areq[j].pc # "idle"

\* the Authorization headers of the requests: none (0), a token nobody
\* issued (-1) and the tokens of the stored sessions
Authorizations == {0, -1} \cup {s.token : s \in sessions}

\* keydb.hgetall(`sessions/${authorization}`): the fields of the hash, and an
\* object without fields (user_id and connection_id undefined, 0 here) when
\* the key does not exist; the result is never null
HGetAll(authorization) ==
    IF \E s \in sessions : s.token = authorization
    THEN LET s == CHOOSE s \in sessions : s.token = authorization
         IN  [user_id |-> s.user_id, connection_id |-> s.connection_id]
    ELSE [user_id |-> 0, connection_id |-> 0]

\* the ids findFirst({ where: { id } }) may return (0: null).  Prisma leaves
\* a filter whose value is undefined out of the query, which then returns
\* some row of the table, whichever the database yields first.
FindFirstById(rows, id) ==
    IF id = 0 THEN (IF rows = {} THEN {0} ELSE {row.id : row \in rows})
    ELSE IF \E row \in rows : row.id = id THEN {id} ELSE {0}

\* a reply of a session route
AReply(r, status, code) == [r EXCEPT !.pc = "done", !.status = status, !.code = code]

\* A request of GET /user or GET /devices arrives: the hook's header check
\* and its read of the session.
HookStart(i) ==
    /\ version = "part_001"
    /\ ANextSlot(i)
    /\ \E route \in {"user", "devices"}, authorization \in Authorizations :
          LET r == [AIdle EXCEPT !.route = route, !.auth = authorization]
          IN  areq' = [areq EXCEPT ![i] =
                  IF authorization = 0
                  THEN AReply(r, 403, "missing_authorization")
                  ELSE [r EXCEPT !.session = HGetAll(authorization),
                                 !.pc = "hookUser"]]
    /\ UNCHANGED <<leaderboard, diagnostics, feedback, sessions, secret, pika, req,
                   version, phase, devices, probe, users, connections, oauthStates>>

\* user = prisma.users.findFirst({ where: { id: session.user_id } })
HookUser(i) ==
    LET r == areq[i]
    IN  /\ r.pc = "hookUser"
        /\ \E user \in FindFirstById(users, r.session.user_id) :
              areq' = [areq EXCEPT ![i] =
                  IF user = 0 THEN AReply(r, 403, "invalid_authentication")
                  ELSE [r EXCEPT !.user = user, !.pc = "hookConnection"]]
        /\ UNCHANGED <<leaderboard, diagnostics, feedback, sessions, secret, pika, req,
                       version, phase, devices, probe, users, connections, oauthStates>>

\* connection = prisma.connections.findFirst({ where: { id } }), the admin
\* check, and the route handler, which replies 200
HookConnection(i) ==
    LET r == areq[i]
        user == CHOOSE u \in users : u.id = r.user
    IN  /\ r.pc = "hookConnection"
        /\ \E conn \in FindFirstById(connections, r.session.connection_id) :
              areq' = [areq EXCEPT ![i] =
                  IF r.route = "devices" /\ ~user.admin
                  THEN AReply([r EXCEPT !.conn = conn], 401, "invalid_permissions")
                  ELSE AReply([r EXCEPT !.conn = conn, !.ran = TRUE], 200, "success")]
        /\ UNCHANGED <<leaderboard, diagnostics, feedback, sessions, secret, pika, req,
                       version, phase, devices, probe, users, connections, oauthStates>>

\* A request of GET /verify arrives: the header check and the read of the
\* session, whose result is never null.
VerifyStart(i) ==
    /\ version = "part_001"
    /\ ANextSlot(i)
    /\ \E authorization \in Authorizations :
          LET r == [AIdle EXCEPT !.route = "verify", !.auth = authorization]
          IN  areq' = [areq EXCEPT ![i] =
                  IF authorization = 0 THEN AReply(r, 200, "valid: false")
                  ELSE [r EXCEPT !.session = HGetAll(authorization),
                                 !.pc = "verifyUser"]]
    /\ UNCHANGED <<leaderboard, diagnostics, feedback, sessions, secret, pika, req,
                   version, phase, devices, probe, users, connections, oauthStates>>

\* user = prisma.users.findFirst({ where: { id: session.user_id } })
VerifyUser(i) ==
    LET r == areq[i]
    IN  /\ r.pc = "verifyUser"
        /\ \E user \in FindFirstById(users, r.session.user_id) :
              areq' = [areq EXCEPT ![i] = [r EXCEPT !.user = user,
                                                   !.pc = "verifyConnection"]]
        /\ UNCHANGED <<leaderboard, diagnostics, feedback, sessions, secret, pika, req,
                       version, phase, devices, probe, users, connections, oauthStates>>

\* connection = prisma.connections.findFirst({ where: { id } }) and the
\* reply { valid: true, user, connection }
VerifyConnection(i) ==
    LET r == areq[i]
    IN  /\ r.pc = "verifyConnection"
        /\ \E conn \in FindFirstById(connections, r.session.connection_id) :
              areq' = [areq EXCEPT ![i] =
                          AReply([r EXCEPT !.conn = conn], 200, "valid: true")]
        /\ UNCHANGED <<leaderboard, diagnostics, feedback, sessions, secret, pika, req,
                       version, phase, devices, probe, users, connections, oauthStates>>

\* GET /oauth/discord: state = pika.gen("oauth"), keydb.set(`oauth_state/
\* ${state}`, state, "EX", 500) and the reply with the authorize URL
OauthBegin(i) ==
    /\ version = "part_001"
    /\ ANextSlot(i)
    /\ pika' = pika + 1
    /\ oauthStates' = oauthStates \cup {pika + 1}
    /\ areq' = [areq EXCEPT ![i] =
                  AReply([AIdle EXCEPT !.route = "oauthBegin", !.state = pika + 1],
                         200, "success")]
    /\ UNCHANGED <<leaderboard, diagnostics, feedback, sessions, secret, req,
                   version, phase, devices, probe, users, connections>>

\* the 500 seconds of a stored state are over
ExpireState ==
    /\ \E state \in oauthStates : oauthStates' = oauthStates \ {state}
    /\ UNCHANGED <<leaderboard, diagnostics, feedback, sessions, secret, pika, req,
                   version, phase, devices, probe, users, connections, areq>>

\* the states GET /oauth/discord has handed out
KnownStates ==
    StoredStates
        \cup {areq[j].state : j \in {k \in Slots : areq[k].route = "oauthBegin"}}

\* the Discord users a code may stand for: one with a connection, one
\* without, and "" for a code Discord refuses
Identities == {"id_1", "id_3", ""}

\* POST /oauth/discord arrives: validState = keydb.exists(`oauth_state/${state}`)
CallbackStart(i) ==
    /\ version = "part_001"
    /\ ANextSlot(i)
    /\ \E state \in KnownStates \cup {-1}, identity \in Identities :
          LET r == [AIdle EXCEPT !.route = "oauthCallback", !.state = state,
                                 !.identity = identity]
          IN  areq' = [areq EXCEPT ![i] =
                  IF state \in oauthStates THEN [r EXCEPT !.pc = "exchange"]
                  ELSE AReply(r, 400, "invalid_state")]
    /\ UNCHANGED <<leaderboard, diagnostics, feedback, sessions, secret, pika, req,
                   version, phase, devices, probe, users, connections, oauthStates>>

\* exchangeDiscordCode and fetchDiscordUser: Discord refuses the code (the
\* handler throws, Fastify replies 500) or names the user
CallbackExchange(i) ==
    LET r == areq[i]
    IN  /\ r.pc = "exchange"
        /\ areq' = [areq EXCEPT ![i] =
                      IF r.identity = "" THEN AReply(r, 500, "Internal Server Error")
                      ELSE [r EXCEPT !.pc = "redeem"]]
        /\ UNCHANGED <<leaderboard, diagnostics, feedback, sessions, secret, pika, req,
                       version, phase, devices, probe, users, connections, oauthStates>>

\* keydb.del(`oauth_state/${state}`), between the two keydb.set of the
\* Discord tokens (which no modelled route reads)
CallbackRedeem(i) ==
    LET r == areq[i]
    IN  /\ r.pc = "redeem"
        /\ oauthStates' = oauthStates \ {r.state}
        /\ areq' = [areq EXCEPT ![i] = [r EXCEPT !.pc = "findConnection"]]
        /\ UNCHANGED <<leaderboard, diagnostics, feedback, sessions, secret, pika, req,
                       version, phase, devices, probe, users, connections>>

\* existingConnection = prisma.connections.findFirst({ where: { platform:
\* "discord", platform_id: user.id } }); without one, id = pika.gen("user")
\* and connection_id = pika.gen("connection")
CallbackFindConnection(i) ==
    LET r == areq[i]
        found == {c \in connections : c.platform = "discord"
                                      /\ c.platform_id = r.identity}
    IN  /\ r.pc = "findConnection"
        /\ IF found # {}
           THEN /\ \E c \in found :
                      areq' = [areq EXCEPT ![i] = [r EXCEPT !.user = c.user_id,
                                                           !.conn = c.id,
                                                           !.pc = "session"]]
                /\ pika' = pika
           ELSE /\ areq' = [areq EXCEPT ![i] = [r EXCEPT !.user = pika + 1,
                                                         !.conn = pika + 2,
                                                         !.pc = "createUser"]]
                /\ pika' = pika + 2
        /\ UNCHANGED <<leaderboard, diagnostics, feedback, sessions, secret, req,
                       version, phase, devices, probe, users, connections, oauthStates>>

\* prisma.users.create({ data: { id, ... } })
CallbackCreateUser(i) ==
    LET r == areq[i]
    IN  /\ r.pc = "createUser"
        /\ users' = users \cup { [id |-> r.user, admin |-> FALSE] }
        /\ areq' = [areq EXCEPT ![i] = [r EXCEPT !.createdUser = r.user,
                                               !.pc = "createConnection"]]
        /\ UNCHANGED <<leaderboard, diagnostics, feedback, sessions, secret, pika, req,
                       version, phase, devices, probe, connections, oauthStates>>

\* what prisma.connections.create may do with a row whose platform and
\* platform_id a stored row holds already: the schema is not among the
\* sources, so the table may accept the row (TRUE) or, with a unique index
\* on the pair, refuse it (FALSE); any other row is accepted
Accepts(platform, identity) ==
    IF \E c \in connections : c.platform = platform /\ c.platform_id = identity
    THEN {TRUE, FALSE}
    ELSE {TRUE}

\* prisma.connections.create({ data: { id: connection_id, platform: "discord",
\* platform_id, user_id } }); when the table refuses the row the handler
\* throws and Fastify replies 500
CallbackCreateConnection(i) ==
    LET r == areq[i]
    IN  /\ r.pc = "createConnection"
        /\ \E accepted \in Accepts("discord", r.identity) :
              IF accepted
              THEN /\ connections' = connections \cup
                         { [id |-> r.conn, platform |-> "discord",
                            platform_id |-> r.identity, user_id |-> r.user] }
                   /\ areq' = [areq EXCEPT ![i] = [r EXCEPT !.createdConn = r.conn,
                                                            !.pc = "session"]]
              ELSE /\ connections' = connections
                   /\ areq' = [areq EXCEPT ![i] =
                                 AReply(r, 500, "Internal Server Error")]
        /\ UNCHANGED <<leaderboard, diagnostics, feedback, sessions, secret, pika, req,
                       version, phase, devices, probe, users, oauthStates>>

\* session = pika.gen("session"), keydb.hset(`sessions/${session}`, { user_id,
\* connection_id }), the sessions row and the reply with the token
CallbackSession(i) ==
    LET r == areq[i]
    IN  /\ r.pc = "session"
        /\ pika' = pika + 1
        /\ sessions' = sessions \cup
               { [token |-> pika + 1, user_id |-> r.user, connection_id |-> r.conn] }
        /\ areq' = [areq EXCEPT ![i] =
                      AReply([r EXCEPT !.issued = pika + 1], 200, "success")]
        /\ UNCHANGED <<leaderboard, diagnostics, feedback, secret, req,
                       version, phase, devices, probe, users, connections, oauthStates>>

\* the Puffco accounts of the credentials a request may carry: one account,
\* which has no connection yet, and "" for credentials Puffco refuses
PuffcoIdentities == {"id_1", ""}

\* POST /auth/puffco arrives: puffcoLogin(email, password) and fetchUser;
\* Puffco refuses the credentials (the handler throws, Fastify replies 500)
\* or names the account
PuffcoStart(i) ==
    /\ version = "part_001"
    /\ ANextSlot(i)
    /\ \E identity \in PuffcoIdentities :
          LET r == [AIdle EXCEPT !.route = "puffco", !.identity = identity]
          IN  areq' = [areq EXCEPT ![i] =
                  IF identity = "" THEN AReply(r, 500, "Internal Server Error")
                  ELSE [r EXCEPT !.pc = "puffcoFindConnection"]]
    /\ UNCHANGED <<leaderboard, diagnostics, feedback, sessions, secret, pika, req,
                   version, phase, devices, probe, users, connections, oauthStates>>

\* existingConnection = prisma.connections.findFirst({ where: { platform:
\* "puffco", platform_id } }); without one, id = pika.gen("user") and
\* connection_id = pika.gen("connection")
PuffcoFindConnection(i) ==
    LET r == areq[i]
        found == {c \in connections : c.platform = "puffco"
                                      /\ c.platform_id = r.identity}
    IN  /\ r.pc = "puffcoFindConnection"
        /\ IF found # {}
           THEN /\ \E c \in found :
                      areq' = [areq EXCEPT ![i] = [r EXCEPT !.user = c.user_id,
                                                           !.conn = c.id,
                                                           !.pc = "puffcoSession"]]
                /\ pika' = pika
           ELSE /\ areq' = [areq EXCEPT ![i] = [r EXCEPT !.user = pika + 1,
                                                         !.conn = pika + 2,
                                                         !.pc = "puffcoCreateUser"]]
                /\ pika' = pika + 2
        /\ UNCHANGED <<leaderboard, diagnostics, feedback, sessions, secret, req,
                       version, phase, devices, probe, users, connections, oauthStates>>

\* prisma.users.create({ data: { id, ... } })
PuffcoCreateUser(i) ==
    LET r == areq[i]
    IN  /\ r.pc = "puffcoCreateUser"
        /\ users' = users \cup { [id |-> r.user, admin |-> FALSE] }
        /\ areq' = [areq EXCEPT ![i] = [r EXCEPT !.createdUser = r.user,
                                               !.pc = "puffcoCreateConnection"]]
        /\ UNCHANGED <<leaderboard, diagnostics, feedback, sessions, secret, pika, req,
                       version, phase, devices, probe, connections, oauthStates>>

\* prisma.connections.create({ data: { id: connection_id, platform: "puffco",
\* platform_id, user_id } })
PuffcoCreateConnection(i) ==
    LET r == areq[i]
    IN  /\ r.pc = "puffcoCreateConnection"
        /\ \E accepted \in Accepts("puffco", r.identity) :
              IF accepted
              THEN /\ connections' = connections \cup
                         { [id |-> r.conn, platform |-> "puffco",
                            platform_id |-> r.identity, user_id |-> r.user] }
                   /\ areq' = [areq EXCEPT ![i] = [r EXCEPT !.createdConn = r.conn,
                                                            !.pc = "puffcoSession"]]
              ELSE /\ connections' = connections
                   /\ areq' = [areq EXCEPT ![i] =
                                 AReply(r, 500, "Internal Server Error")]
        /\ UNCHANGED <<leaderboard, diagnostics, feedback, sessions, secret, pika, req,
                       version, phase, devices, probe, users, oauthStates>>

\* session = pika.gen("session"), keydb.hset(`sessions/${session}`, { user_id,
\* connection_id }), the sessions row, the Puffco tokens and the reply
PuffcoSession(i) ==
    LET r == areq[i]
    IN  /\ r.pc = "puffcoSession"
        /\ pika' = pika + 1
        /\ sessions' = sessions \cup
               { [token |-> pika + 1, user_id |-> r.user, connection_id |-> r.conn] }
        /\ areq' = [areq EXCEPT ![i] =
                      AReply([r EXCEPT !.issued = pika + 1], 200, "success")]
        /\ UNCHANGED <<leaderboard, diagnostics, feedback, secret, req,
                       version, phase, devices, probe, users, connections, oauthStates>>

AStart(i) ==
    \/ PuffcoStart(i)
    \/ HookStart(i)
    \/ VerifyStart(i)
    \/ OauthBegin(i)
    \/ CallbackStart(i)

AStep(i) ==
    \/ HookUser(i)
    \/ HookConnection(i)
    \/ VerifyUser(i)
    \/ VerifyConnection(i)
    \/ CallbackExchange(i)
    \/ CallbackRedeem(i)
    \/ CallbackFindConnection(i)
    \/ CallbackCreateUser(i)
    \/ CallbackCreateConnection(i)
    \/ CallbackSession(i)
    \/ PuffcoFindConnection(i)
    \/ PuffcoCreateUser(i)
    \/ PuffcoCreateConnection(i)
    \/ PuffcoSession(i)

NextAuth == Boot \/ ExpireState \/ \E i \in Slots : AStart(i) \/ AStep(i)

SpecAuth == InitAuth /\ [][NextAuth]_vars

(***************************************************************************)
(* The store keeps device_id and id unique.                                *)
(***************************************************************************)
UniqueKeys ==
    \A a, b \in leaderboard : (a.device_id = b.device_id \/ a.id = b.id) => a = b

\* the rows stored under a key
RowsUnder(key) == {row \in leaderboard : row.device_id = key}

\* the POST /track requests
Tracks == {i \in Slots : req[i].route = "track"}

(***************************************************************************)
(* Claims.                                                                 *)
(***************************************************************************)

\* C1: of the POST /track requests of one device that run concurrently on a
\* row stored under the device's legacy key, exactly one renames the row:
\* no two requests with the same current key both rename the same row.
C1_ExactlyOneRename ==
    \A i, j \in Tracks :
        (i # j /\ req[i].renamed # 0
               /\ req[i].generatedDeviceId = req[j].generatedDeviceId)
            => req[j].renamed # req[i].renamed

\* C2: migration is idempotent.  With the requests sent one after the other,
\* whenever no request is in progress, every device that was answered by
\* POST /track has exactly one row, stored under its current key, and no
\* row is stored under its legacy key.
C2_MigrationIdempotent ==
    InTurn =>
        \A mac \in Macs :
            (\E i \in Tracks : req[i].status = 200
                               /\ req[i].generatedDeviceId = CurrentKey(mac))
                => /\ Cardinality(RowsUnder(CurrentKey(mac))) = 1
                   /\ RowsUnder(LegacyKey(mac)) = {}

\* C2 witness: a legacy row was re-keyed to the current key of a device that
\* has then been answered twice in sequence.
C2_Witness ==
    /\ InTurn
    /\ \E mac \in Macs :
         /\ \E row \in RowsUnder(CurrentKey(mac)) : row.id \in LegacyRowIds
         /\ \E i, j \in Tracks :
               /\ i # j
               /\ req[i].status = 200 /\ req[j].status = 200
               /\ req[i].generatedDeviceId = CurrentKey(mac)
               /\ req[j].generatedDeviceId = CurrentKey(mac)

\* C3: a POST /track request that found its device's row under the legacy
\* key re-keys that row and creates none: when it is answered, the row of
\* the device is the row it found.
C3_RekeysOriginalRow ==
    \A i \in Tracks :
        (req[i].status = 200 /\ req[i].oldDevice # 0)
            => (req[i].created = 0 /\ req[i].device = req[i].oldDevice)

\* C4: within one POST /track request that found a row under the legacy
\* key, the rename comes before every read or write addressed by the current
\* key (the lookup, the update, the create, the lookup of the reply).
C4_RenameFirst ==
    \A i \in Tracks :
        (/\ req[i].oldDevice # 0
         /\ \/ req[i].pc \in {"findExisting", "update", "create", "respond"}
            \/ req[i].reads >= 2)
            => req[i].renamed = req[i].oldDevice

\* C4 witness: a request that found a legacy row has renamed it and is about
\* to send its reply.
C4_Witness ==
    \E i \in Tracks :
        req[i].pc = "respond" /\ req[i].oldDevice # 0
                              /\ req[i].renamed = req[i].oldDevice

\* C5: a request whose signature is not the keyed digest of its body is
\* rejected by verifyRequest and reaches neither the body validation nor a
\* store call.
C5_WrongSignatureRejected ==
    \A i \in Slots :
        req[i].sigKind = "wrong"
            => /\ req[i].thrown = "Rejected"
               /\ req[i].pc = "done"
               /\ req[i].parses = 0
               /\ req[i].reads = 0 /\ req[i].writes = 0

\* C5 witness: a POST /track request with a wrong signature has been rejected.
C5_Witness ==
    \E i \in Tracks : req[i].sigKind = "wrong" /\ req[i].verifyCalls = 1

\* C6: a request signed with the configured secret passes verifyRequest, and
\* the body its handler validates and works on is the body that was signed.
C6_RightSignatureAccepted ==
    \A i \in Slots :
        req[i].sigKind = "right"
            => /\ req[i].verifyCalls = 1
               /\ req[i].thrown # "Rejected"
               /\ req[i].parses = 1
               /\ req[i].pc # "done" => req[i].body = req[i].rawBody[2]

\* C6 witness: a signed request is past the check and holds its body.
C6_Witness ==
    \E i \in Slots :
        /\ req[i].sigKind = "right"
        /\ req[i].pc \notin {"idle", "done"}
        /\ req[i].body = req[i].rawBody[2]

\* C7: a request without x-signature header is answered 400 with the code of
\* its route, and its handler calls neither verifyRequest nor the store.
C7_MissingSignature ==
    \A i \in Slots :
        (req[i].pc # "idle" /\ req[i].sigKind = "absent")
            => /\ req[i].pc = "done"
               /\ req[i].status = 400
               /\ req[i].code =
                     CASE req[i].route = "track" -> "invalid_tracking_data"
                       [] req[i].route = "diag" -> "invalid_diag_data"
                       [] req[i].route = "feedback" -> "invalid_feedback_request"
               /\ req[i].verifyCalls = 0
               /\ req[i].parses = 0
               /\ req[i].reads = 0 /\ req[i].writes = 0

\* C7 witness: a POST /diag request without the header has been answered.
C7_Witness ==
    \E i \in Slots :
        req[i].route = "diag" /\ req[i].sigKind = "absent" /\ req[i].status = 400

\* C8: a request that verifyRequest rejects is answered with a client error,
\* never with a 5xx / internal_error reply.
C8_RejectionIsClientError ==
    \A i \in Slots :
        req[i].thrown = "Rejected"
            => (req[i].status < 500 /\ req[i].code # "internal_error")

\* C9: a signed POST /track request whose device.mac or device.dob is
\* malformed is answered with an error code that is not the code of a
\* missing signature, and no key is derived and no store call made for it.
C9_ValidationErrorDistinct ==
    \A i \in Tracks :
        (req[i].pc = "done" /\ req[i].sigKind = "right"
                            /\ req[i].input \in {"mac", "dob"})
            => /\ req[i].status >= 400
               /\ req[i].code # "invalid_tracking_data"
               /\ req[i].deviceUid = <<>> /\ req[i].oldInt = <<>>
               /\ req[i].reads = 0 /\ req[i].writes = 0

\* C10: verifyRequest has no side effect: the step of a handler that calls it
\* leaves the tables, the session store and the secret as they were, so a
\* request that it rejects leaves every stored record unchanged.
C10_VerifyChangesNothing ==
    [][ \A i \in Slots :
          req'[i].verifyCalls > req[i].verifyCalls
             => /\ leaderboard' = leaderboard
                /\ diagnostics' = diagnostics
                /\ feedback' = feedback
                /\ sessions' = sessions
                /\ secret' = secret ]_vars

\* C10 witness: a request has been rejected while rows are stored.
C10_Witness ==
    \E i \in Slots :
        /\ req[i].thrown = "Rejected" /\ req[i].verifyCalls = 1
        /\ leaderboard # {}

\* C11: a row is re-keyed only by a request of the device the row belongs
\* to: the request that renames a legacy row carries the MAC address of the
\* device that wrote the row.
C11_OwnDeviceOnly ==
    \A i \in Tracks :
        req[i].renamed # 0
            => req[i].generatedDeviceId = CurrentKey(LegacyOwnerSeq[req[i].renamed])

\* a step in which the update of request i succeeded
C12_Updated(i) ==
    /\ req[i].route = "track" /\ req[i].pc = "update" /\ req'[i].pc = "respond"

\* the update of request i wrote the telemetry of request i into the row
\* under its key and nothing else
C12_Overwrites(i) ==
    LET key == req[i].generatedDeviceId
        old == RowOf(leaderboard, key)
        new == RowOf(leaderboard', key)
    IN  /\ RowsUnder(key) # {}
        /\ new.id = old.id
        /\ new.created_at = old.created_at
        /\ new.device_dob = req[i].body.dob
        /\ new.total_dabs = req[i].body.totalDabs
        /\ new.last_ip = req[i].ip
        /\ new.last_active = i
        /\ leaderboard' \ {new} = leaderboard \ {old}

\* a step in which the update of request i of the later version succeeded
C12_UpdatedDevice(i) ==
    /\ req[i].route = "track" /\ req[i].pc = "updateDevice" /\ req'[i].pc = "device"

\* the update of request i wrote the telemetry of request i into the devices
\* row of its MAC address and nothing else
C12_OverwritesDevice(i) ==
    LET mac == req[i].body.mac
        old == CHOOSE row \in devices : row.mac = mac
        new == CHOOSE row \in devices' : row.mac = mac
    IN  /\ FindMac(devices, mac) # 0
        /\ new.id = old.id
        /\ new.created_at = old.created_at
        /\ new.dob = req[i].body.dob
        /\ new.dabs = req[i].body.totalDabs
        /\ new.last_ip = req[i].ip
        /\ new.last_active = i
        /\ devices' \ {new} = devices \ {old}

\* the table of the deployed version
Table == IF version = "part_000" THEN leaderboard ELSE devices

\* the row of a device carries the telemetry of the last request answered
\* for it
C12_LaterWins ==
    InTurn =>
        \A i \in Tracks :
            (/\ req[i].status = 200
             /\ \A j \in Tracks :
                    (req[j].status = 200 /\ req[j].device = req[i].device)
                        => j <= i)
                => \E row \in Table :
                       /\ row.id = req[i].device
                       /\ row.last_ip = req[i].ip
                       /\ row.last_active \in {0, i}

Derived == probe.pc \in {"derived", "looked"}

\* C13: the current key of a MAC address is "device_" followed by an
\* encoding of the address that decodes to the address; equal addresses have
\* equal keys and distinct addresses distinct keys; GET /device/:device_mac
\* with the current key of an address looks up, and finds, the row whose mac
\* is that address.
C13_CurrentKeyReversible ==
    /\ Derived =>
         /\ SubSeq(probe.current1, 1, 7) = DevicePrefix
         /\ Base64Decode(Substring(probe.current1, 7)) = MacText(probe.octets1)
         /\ Base64Decode(Substring(probe.current2, 7)) = MacText(probe.octets2)
         /\ (probe.octets1 = probe.octets2) <=> (probe.current1 = probe.current2)
    /\ (probe.pc = "looked" /\ probe.param = probe.current1) =>
         /\ probe.where = MacText(probe.octets1)
         /\ probe.status = 200
         /\ \E row \in devices : row.id = probe.device
                                 /\ row.mac = MacText(probe.octets1)

\* C13 witness: two addresses that differ in their last octet only, and the
\* row of the first one looked up by its current key.
C13_Witness ==
    /\ probe.pc = "looked" /\ probe.param = probe.current1
    /\ probe.octets1 # probe.octets2
    /\ SubSeq(probe.octets1, 1, 5) = SubSeq(probe.octets2, 1, 5)
    /\ probe.device = 1

\* the value of a decimal text, as four octets, most significant first
TimesTenPlus(num, d) ==
    LET t4 == num[4] * 10 + d
        t3 == num[3] * 10 + t4 \div 256
        t2 == num[2] * 10 + t3 \div 256
        t1 == num[1] * 10 + t2 \div 256
    IN  << t1 % 256, t2 % 256, t3 % 256, t4 % 256 >>

RECURSIVE ValueOfDecimal(_)
ValueOfDecimal(text) ==
    IF Len(text) = 0 THEN <<0, 0, 0, 0>>
    ELSE TimesTenPlus(ValueOfDecimal(SubSeq(text, 1, Len(text) - 1)),
                      text[Len(text)] - 48)

\* the text is a decimal numeral without a leading zero
IsDecimal(text) ==
    /\ Len(text) > 0
    /\ \A k \in 1..Len(text) : text[k] >= 48 /\ text[k] <= 57
    /\ Len(text) > 1 => text[1] # 48

\* the integer written in the legacy key of the first address, as four octets
LegacyValue == ValueOfDecimal(Base64Decode(Substring(probe.legacy1, 7)))

\* C14 as stated: the legacy key is "device_" followed by the encoding of
\* the decimal text of the integer whose octets, most significant first, are
\* the second to fifth octet of the address (a big-endian reading).
C14_BigEndian ==
    Derived =>
        /\ SubSeq(probe.legacy1, 1, 7) = DevicePrefix
        /\ IsDecimal(Base64Decode(Substring(probe.legacy1, 7)))
        /\ LegacyValue = SubSeq(probe.octets1, 2, 5)

\* C14 amended: the legacy key is "device_" followed by the encoding of the
\* decimal text of the integer whose octets, least significant first, are
\* the second to fifth octet of the address (a little-endian reading).
C14_LittleEndian ==
    Derived =>
        /\ SubSeq(probe.legacy1, 1, 7) = DevicePrefix
        /\ IsDecimal(Base64Decode(Substring(probe.legacy1, 7)))
        /\ LegacyValue = << probe.octets1[5], probe.octets1[4],
                            probe.octets1[3], probe.octets1[2] >>

\* C14 witness: the legacy key of AA:BB:CC:DD:EE:FF is derived; it encodes
\* 4007513275, which is EE DD CC BB read as one integer.
C14_Witness ==
    /\ Derived
    /\ probe.octets1 = <<170, 187, 204, 221, 238, 255>>
    /\ Base64Decode(Substring(probe.legacy1, 7))
         = <<52, 48, 48, 55, 53, 49, 51, 50, 55, 53>>

\* C15: the legacy key is lossy.  Two addresses that agree on their second
\* to fifth octet have the same legacy key, whatever their first and last
\* octet, while their current keys differ when the addresses do.
C15_LegacyLossy ==
    (Derived /\ SubSeq(probe.octets1, 2, 5) = SubSeq(probe.octets2, 2, 5)) =>
        /\ probe.legacy1 = probe.legacy2
        /\ probe.octets1 # probe.octets2 => probe.current1 # probe.current2

\* C15 witness: two distinct addresses with one legacy key and two current
\* keys.
C15_Witness ==
    /\ Derived
    /\ probe.mac1 # probe.mac2
    /\ probe.legacy1 = probe.legacy2
    /\ probe.current1 # probe.current2

\* C16: a process whose secret is empty or absent never serves: it fails at
\* startup, no request is taken and verifyRequest is never called with an
\* empty secret.
C16_NoServingWithoutSecret ==
    secret = "" =>
        /\ phase \in {"starting", "failed"}
        /\ \A i \in Slots : req[i].pc = "idle" /\ req[i].verifyCalls = 0

\* C16 witness: the process was started without a secret and has failed.
C16_Witness == secret = "" /\ phase = "failed"

C18_AlwaysAnswered ==
    \A i \in Tracks :
        (req[i].pc = "done" /\ req[i].sigKind # "absent") => req[i].status # 0

\* C19: only issued session tokens authenticate.  The handler of GET /user
\* or GET /devices has run only for a request whose Authorization header is
\* the token of a stored session whose user exists (an administrator, for
\* GET /devices), and GET /verify has answered valid: true only for the
\* token of a stored session.
C19_OnlyIssuedTokens ==
    \A i \in Slots :
        LET r == areq[i]
            held == {s \in sessions : s.token = r.auth}
        IN  /\ (r.route \in {"user", "devices"} /\ r.ran) =>
                  \E s \in held : \E u \in users :
                      /\ u.id = s.user_id
                      /\ r.user = u.id
                      /\ r.route = "devices" => u.admin
            /\ (r.route = "verify" /\ r.code = "valid: true") => held # {}

\* C20: an OAuth state is redeemed once.  POST /oauth/discord has issued a
\* session only for a state that GET /oauth/discord handed out, and no two
\* callbacks have been issued a session for one state.
C20_StateSingleUse ==
    \A i, j \in Slots :
        (areq[i].route = "oauthCallback" /\ areq[i].issued # 0) =>
            /\ areq[i].state \in KnownStates
            /\ (j # i /\ areq[j].route = "oauthCallback" /\ areq[j].issued # 0)
                  => areq[j].state # areq[i].state

\* the logins and the platform each signs in with
Logins == {i \in Slots : areq[i].route \in {"oauthCallback", "puffco"}}

PlatformOf(i) == IF areq[i].route = "puffco" THEN "puffco" ELSE "discord"

\* C21: one connection, and one user, per external identity.  No two rows
\* of connections hold one platform and platform_id, no two logins of one
\* identity have each inserted a user, and a login that found a connection
\* has inserted nothing and is issued a session of the connection's user.
C21_OneConnectionPerIdentity ==
    /\ \A a, b \in connections :
          (a.platform = b.platform /\ a.platform_id = b.platform_id) => a = b
    /\ \A i, j \in Logins :
          (/\ i # j
           /\ PlatformOf(i) = PlatformOf(j)
           /\ areq[i].identity = areq[j].identity
           /\ areq[i].createdUser # 0) => areq[j].createdUser = 0
    /\ \A i \in Logins :
          (areq[i].issued # 0 /\ areq[i].createdUser = 0) =>
              \E c \in connections :
                  /\ c.id = areq[i].conn /\ c.user_id = areq[i].user
                  /\ c.platform = PlatformOf(i)
                  /\ c.platform_id = areq[i].identity
                  /\ areq[i].createdConn = 0

\* C22: no reply of a public device route carries a last_ip field in a
\* device record.
C22_NoLastIpSent == \A i \in Slots : "last_ip" \notin req[i].sent

====
